---- MODULE Spec2Model ----
(***************************************************************************)
(* Lease cache simulator (src/src/lib.rs): a ring of expiration buckets    *)
(* (expiring_vec), the index of the current bucket (curr_expiring_index),  *)
(* the content map object -> bucket index, a resident counter and an       *)
(* optional capacity.                                                      *)
(*                                                                         *)
(* The cache is one record, lease_cache; every method of LeaseCache is an  *)
(* operator from a cache record to an outcome record                       *)
(*   [cache |-> the cache as the method leaves it,                         *)
(*    panic |-> TRUE when the method panics (an unwrap on None, or an      *)
(*              arithmetic overflow in a build with overflow checks),      *)
(*    ...   |-> the method's return value]                                 *)
(* A method that draws at random returns the set of its possible outcomes. *)
(*                                                                         *)
(* usize values are kept in their two's complement reading: a negative     *)
(* number v stands for 2^64 + v, the value a wrapping subtraction leaves.  *)
(* The ring has MAX_EXPIRING_VEC_SIZE buckets; the model scales it to      *)
(* RingSize buckets, and offers leases below, at and above that horizon.   *)
(***************************************************************************)
EXTENDS Integers, FiniteSets, Sequences, TLC

VARIABLES
    lease_cache,      \* the LeaseCache value
    overflow_checks,  \* build profile: TRUE = arithmetic overflow panics (debug)
    panicked,         \* TRUE once a call has panicked
    last,             \* the last call made, its arguments and what it returned
    track             \* reference: per object, the lease granted and ticks since

vars == <<lease_cache, overflow_checks, panicked, last, track>>

\* ------------------------------------------------------------------ bounds
RingSize == 4
MaxCapacity == 1
MaxConsumption == 2

Objs == {"A", "B"}
MAX_EXPIRING_VEC_SIZE == RingSize
\* leases offered to the cache: 0, below the horizon, the horizon, above it
MaxLease == MAX_EXPIRING_VEC_SIZE + 1
Leases == 0 .. MaxLease
BoundedLeases == 0 .. (MAX_EXPIRING_VEC_SIZE - 1)
Capacities == 0 .. MaxCapacity
Indices == 0 .. (MAX_EXPIRING_VEC_SIZE - 1)

\* ------------------------------------------------------------------ std
\* Option<T>: None is the empty set, Some(v) the singleton
None == {}
Some(v) == {v}
unwrap(opt) == CHOOSE v \in opt : TRUE

\* HashMap::insert, HashMap::remove, HashMap::contains_key
MapInsert(m, k, v) == [x \in (DOMAIN m) \cup {k} |-> IF x = k THEN v ELSE m[x]]
MapRemove(m, k) == [x \in (DOMAIN m) \ {k} |-> m[x]]
EmptyMap == [x \in {} |-> 0]

\* usize arithmetic in the two's complement reading
SubOverflows(a, n) == a >= 0 /\ a < n
UsizeGt(a, b) == IF a < 0 THEN (b >= 0 \/ a > b) ELSE (b >= 0 /\ a > b)

\* ------------------------------------------------------------------ LeaseCache
new ==
    [ expiring_vec |-> [i \in Indices |-> {}],
      curr_expiring_index |-> 0,
      content_map |-> EmptyMap,
      cache_consumption |-> 0,
      cache_size |-> None ]

\* insert taking the lease as the bucket index, not offset by the current index
insert_ignores_current_index(c, obj_id, lease) ==
    LET absolute_index == lease % MAX_EXPIRING_VEC_SIZE
    IN [c EXCEPT !.expiring_vec[absolute_index] = @ \cup {obj_id},
                 !.content_map = MapInsert(@, obj_id, absolute_index)]

insert(c, obj_id, lease) ==
    LET absolute_index == (c.curr_expiring_index + lease) % MAX_EXPIRING_VEC_SIZE
    IN [c EXCEPT !.expiring_vec[absolute_index] = @ \cup {obj_id},
                 !.content_map = MapInsert(@, obj_id, absolute_index)]

\* dump_expiring sweeping the bucket of the old index and advancing afterwards
dump_expiring_sweep_then_advance(c) ==
    LET old == c.curr_expiring_index
        idx == (c.curr_expiring_index + 1) % MAX_EXPIRING_VEC_SIZE
        expiring == c.expiring_vec[old]
        c1 == [c EXCEPT !.curr_expiring_index = idx]
    IN IF overflow_checks /\ SubOverflows(c.cache_consumption, Cardinality(expiring))
       THEN [cache |-> c, panic |-> TRUE, expiring |-> {}]
       ELSE [cache |-> [c1 EXCEPT
                          !.cache_consumption = @ - Cardinality(expiring),
                          !.content_map = [x \in (DOMAIN @) \ expiring |-> @[x]],
                          !.expiring_vec[old] = {}],
             panic |-> FALSE,
             expiring |-> expiring]

dump_expiring(c) ==
    LET idx == (c.curr_expiring_index + 1) % MAX_EXPIRING_VEC_SIZE
        expiring == c.expiring_vec[idx]
        c1 == [c EXCEPT !.curr_expiring_index = idx]
    IN IF overflow_checks /\ SubOverflows(c.cache_consumption, Cardinality(expiring))
       THEN [cache |-> c1, panic |-> TRUE, expiring |-> {}]
       ELSE [cache |-> [c1 EXCEPT
                          !.cache_consumption = @ - Cardinality(expiring),
                          !.content_map = [x \in (DOMAIN @) \ expiring |-> @[x]],
                          !.expiring_vec[idx] = {}],
             panic |-> FALSE,
             expiring |-> expiring]

\* update with the lease-zero arm of a miss dropped: a miss always inserts
update_zero_lease_inserts(c, obj_id, lease) ==
    LET d == dump_expiring(c)
        c1 == d.cache
    IN IF d.panic
       THEN [cache |-> c1, panic |-> TRUE, result |-> "Panic", expiring |-> {}]
       ELSE IF obj_id \notin DOMAIN c1.content_map
       THEN [cache |-> [insert(c1, obj_id, lease) EXCEPT
                          !.cache_consumption = @ + 1],
             panic |-> FALSE, result |-> "Miss", expiring |-> d.expiring]
       ELSE LET old_index == c1.content_map[obj_id]
                c2 == [c1 EXCEPT !.expiring_vec[old_index] = @ \ {obj_id}]
            IN IF obj_id \notin c1.expiring_vec[old_index]
               THEN [cache |-> c1, panic |-> TRUE, result |-> "Panic",
                     expiring |-> d.expiring]
               ELSE [cache |-> IF lease # 0 THEN insert(c2, obj_id, lease) ELSE c2,
                     panic |-> FALSE, result |-> "Hit", expiring |-> d.expiring]

update(c, obj_id, lease) ==
    LET d == dump_expiring(c)
        c1 == d.cache
    IN IF d.panic
       THEN [cache |-> c1, panic |-> TRUE, result |-> "Panic", expiring |-> {}]
       ELSE IF obj_id \notin DOMAIN c1.content_map
       THEN IF lease = 0
            THEN [cache |-> c1, panic |-> FALSE, result |-> "Miss",
                  expiring |-> d.expiring]
            ELSE [cache |-> [insert(c1, obj_id, lease) EXCEPT
                               !.cache_consumption = @ + 1],
                  panic |-> FALSE, result |-> "Miss", expiring |-> d.expiring]
       ELSE LET old_index == c1.content_map[obj_id]
                c2 == [c1 EXCEPT !.expiring_vec[old_index] = @ \ {obj_id}]
            IN IF obj_id \notin c1.expiring_vec[old_index]
               THEN [cache |-> c1, panic |-> TRUE, result |-> "Panic",
                     expiring |-> d.expiring]
               ELSE [cache |-> IF lease # 0 THEN insert(c2, obj_id, lease) ELSE c2,
                     panic |-> FALSE, result |-> "Hit", expiring |-> d.expiring]

contains(c, obj_id) == obj_id \in DOMAIN c.content_map

\* get_time_till_eviction without the branch for an index behind the clock
get_time_till_eviction_no_wrap(c, obj_id) ==
    IF obj_id \notin DOMAIN c.content_map
    THEN None
    ELSE Some(c.content_map[obj_id] - c.curr_expiring_index)

get_time_till_eviction(c, obj_id) ==
    IF obj_id \notin DOMAIN c.content_map
    THEN None
    ELSE LET index == c.content_map[obj_id]
             curr_index == c.curr_expiring_index
         IN IF index > curr_index
            THEN Some(index - curr_index)
            ELSE Some(MAX_EXPIRING_VEC_SIZE - curr_index + index)

get_cache_consumption(c) == c.cache_consumption

remove_from_cache(c, obj_id) ==
    IF obj_id \notin DOMAIN c.content_map
    THEN [cache |-> c, panic |-> TRUE]
    ELSE LET index == c.content_map[obj_id]
             c1 == [c EXCEPT !.expiring_vec[index] = @ \ {obj_id},
                             !.content_map = MapRemove(@, obj_id)]
         IN IF overflow_checks /\ SubOverflows(c.cache_consumption, 1)
            THEN [cache |-> c1, panic |-> TRUE]
            ELSE [cache |-> [c1 EXCEPT !.cache_consumption = @ - 1],
                  panic |-> FALSE]

\* the outcomes of drawing one entry at random: None on an empty map
remove_random_element(map) ==
    IF DOMAIN map = {}
    THEN {[map |-> map, entry |-> None]}
    ELSE {[map |-> MapRemove(map, key), entry |-> Some(<<key, map[key]>>)] :
            key \in DOMAIN map}

force_evict(c) ==
    {IF r.entry = None
     THEN [cache |-> c, panic |-> TRUE, evicted |-> None]
     ELSE LET obj_id == unwrap(r.entry)[1]
              absolute_index == unwrap(r.entry)[2]
              c1 == [c EXCEPT !.content_map = r.map]
          IN IF obj_id \notin c.expiring_vec[absolute_index]
             THEN [cache |-> c1, panic |-> TRUE, evicted |-> None]
             ELSE [cache |-> [c1 EXCEPT !.expiring_vec[absolute_index] = @ \ {obj_id}],
                   panic |-> FALSE, evicted |-> Some(obj_id)]
     : r \in remove_random_element(c.content_map)}

\* cache_access leaving the counter as it is after a capacity eviction
cache_access_no_decrement(c, access) ==
    LET lease == access[1]
        obj_id == access[2]
        u == update(c, obj_id, lease)
        c1 == u.cache
    IN IF u.panic
       THEN {[cache |-> c1, panic |-> TRUE, result |-> "Panic",
              expiring |-> u.expiring, evicted |-> None]}
       ELSE IF c1.cache_size = None
       THEN {[cache |-> c1, panic |-> TRUE, result |-> "Panic",
              expiring |-> u.expiring, evicted |-> None]}
       ELSE IF UsizeGt(c1.cache_consumption, unwrap(c1.cache_size))
       THEN {IF e.panic
             THEN [cache |-> e.cache, panic |-> TRUE, result |-> "Panic",
                   expiring |-> u.expiring, evicted |-> None]
             ELSE [cache |-> e.cache,
                   panic |-> FALSE, result |-> u.result,
                   expiring |-> u.expiring, evicted |-> e.evicted]
             : e \in force_evict(c1)}
       ELSE {[cache |-> c1, panic |-> FALSE, result |-> u.result,
              expiring |-> u.expiring, evicted |-> None]}

\* impl CacheSim for LeaseCache; access is TaggedObjectId(lease, obj_id)
cache_access(c, access) ==
    LET lease == access[1]
        obj_id == access[2]
        u == update(c, obj_id, lease)
        c1 == u.cache
    IN IF u.panic
       THEN {[cache |-> c1, panic |-> TRUE, result |-> "Panic",
              expiring |-> u.expiring, evicted |-> None]}
       ELSE IF c1.cache_size = None
       THEN {[cache |-> c1, panic |-> TRUE, result |-> "Panic",
              expiring |-> u.expiring, evicted |-> None]}
       ELSE IF UsizeGt(c1.cache_consumption, unwrap(c1.cache_size))
       THEN {IF e.panic
             THEN [cache |-> e.cache, panic |-> TRUE, result |-> "Panic",
                   expiring |-> u.expiring, evicted |-> None]
             ELSE [cache |-> [e.cache EXCEPT !.cache_consumption = @ - 1],
                   panic |-> FALSE, result |-> u.result,
                   expiring |-> u.expiring, evicted |-> e.evicted]
             : e \in force_evict(c1)}
       ELSE {[cache |-> c1, panic |-> FALSE, result |-> u.result,
              expiring |-> u.expiring, evicted |-> None]}

set_capacity(c, cache_size) == [c EXCEPT !.cache_size = Some(cache_size)]

\* ------------------------------------------------------------------ reference
\* The sparse tick-keyed form of the expiration index, kept beside the ring:
\* per object the lease it was last granted and the ticks elapsed since
\* (lease 0: not resident). It never aliases: an object granted lease L
\* leaves at the L-th tick after the grant, whatever the ring size.
Untracked == [lease |-> 0, age |-> 0]

RefDue(t) == {o \in Objs : t[o].lease > 0 /\ t[o].age + 1 = t[o].lease}

RefTick(t) ==
    [o \in Objs |-> IF t[o].lease > 0 /\ t[o].age + 1 < t[o].lease
                    THEN [t[o] EXCEPT !.age = @ + 1]
                    ELSE Untracked]

RefRemove(t, gone) == [o \in Objs |-> IF o \in gone THEN Untracked ELSE t[o]]

RefAccess(t, obj_id, lease) ==
    [RefTick(t) EXCEPT ![obj_id] = IF lease > 0
                                   THEN [lease |-> lease, age |-> 0]
                                   ELSE Untracked]

\* ------------------------------------------------------------------ state machine
Call(op, obj_id, lease, result, expiring, evicted) ==
    [op |-> op, obj |-> obj_id, lease |-> lease, result |-> result,
     expiring |-> expiring, evicted |-> evicted]

Init ==
    /\ lease_cache = new
    /\ overflow_checks \in BOOLEAN
    /\ panicked = FALSE
    /\ last = Call("new", "none", 0, "Ok", {}, None)
    /\ track = [o \in Objs |-> Untracked]

Update(obj_id, lease) ==
    LET r == update(lease_cache, obj_id, lease)
    IN /\ ~panicked
       /\ r.cache.cache_consumption <= MaxConsumption
       /\ lease_cache' = r.cache
       /\ panicked' = r.panic
       /\ last' = Call("update", obj_id, lease, r.result, r.expiring, None)
       /\ track' = RefAccess(track, obj_id, lease)
       /\ UNCHANGED overflow_checks

CacheAccess(lease, obj_id) ==
    \E r \in cache_access(lease_cache, <<lease, obj_id>>) :
       /\ ~panicked
       /\ r.cache.cache_consumption <= MaxConsumption
       /\ lease_cache' = r.cache
       /\ panicked' = r.panic
       /\ last' = Call("cache_access", obj_id, lease, r.result, r.expiring, r.evicted)
       /\ track' = RefRemove(RefAccess(track, obj_id, lease), r.evicted)
       /\ UNCHANGED overflow_checks

SetCapacity(cache_size) ==
    /\ ~panicked
    /\ lease_cache' = set_capacity(lease_cache, cache_size)
    /\ last' = Call("set_capacity", "none", 0, "Ok", {}, None)
    /\ UNCHANGED <<overflow_checks, panicked, track>>

DumpExpiring ==
    LET r == dump_expiring(lease_cache)
    IN /\ ~panicked
       /\ r.cache.cache_consumption >= -MaxConsumption
       /\ lease_cache' = r.cache
       /\ panicked' = r.panic
       /\ last' = Call("dump_expiring", "none", 0,
                       IF r.panic THEN "Panic" ELSE "Ok", r.expiring, None)
       /\ track' = RefTick(track)
       /\ UNCHANGED overflow_checks

RemoveFromCache(obj_id) ==
    LET r == remove_from_cache(lease_cache, obj_id)
    IN /\ ~panicked
       /\ r.cache.cache_consumption >= -MaxConsumption
       /\ lease_cache' = r.cache
       /\ panicked' = r.panic
       /\ last' = Call("remove_from_cache", obj_id, 0,
                       IF r.panic THEN "Panic" ELSE "Ok", {}, None)
       /\ track' = RefRemove(track, {obj_id})
       /\ UNCHANGED overflow_checks

ForceEvict ==
    \E r \in force_evict(lease_cache) :
       /\ ~panicked
       /\ lease_cache' = r.cache
       /\ panicked' = r.panic
       /\ last' = Call("force_evict", "none", 0,
                       IF r.panic THEN "Panic" ELSE "Ok", {}, r.evicted)
       /\ track' = RefRemove(track, r.evicted)
       /\ UNCHANGED overflow_checks

\* insert called by itself, as the tests of the crate call it
Insert(obj_id, lease) ==
    /\ ~panicked
    /\ lease_cache' = insert(lease_cache, obj_id, lease)
    /\ last' = Call("insert", obj_id, lease, "Ok", {}, None)
    /\ track' = [track EXCEPT ![obj_id] = [lease |-> lease, age |-> 0]]
    /\ UNCHANGED <<overflow_checks, panicked>>

NextOver(leases) ==
    \/ \E obj_id \in Objs, lease \in leases : Update(obj_id, lease)
    \/ \E obj_id \in Objs, lease \in leases : CacheAccess(lease, obj_id)
    \/ \E cache_size \in Capacities : SetCapacity(cache_size)
    \/ DumpExpiring
    \/ \E obj_id \in Objs : RemoveFromCache(obj_id)
    \/ ForceEvict

\* every lease: zero, below the horizon, the horizon and above it
Next == NextOver(Leases)

Spec == Init /\ [][Next]_vars

\* the leases the fixed-horizon ring is built for: below the horizon
NextBounded == NextOver(BoundedLeases)

SpecBounded == Init /\ [][NextBounded]_vars

\* insert, dump_expiring and remove_from_cache called directly, with the
\* positive leases insert is meant for
NextInsert ==
    \/ \E obj_id \in Objs, lease \in Leases \ {0} : Insert(obj_id, lease)
    \/ DumpExpiring
    \/ \E obj_id \in Objs : RemoveFromCache(obj_id)

SpecInsert == Init /\ [][NextInsert]_vars

\* update only, every lease inside the ring: 0 < lease < MAX_EXPIRING_VEC_SIZE
RefineLeases == 1 .. (MAX_EXPIRING_VEC_SIZE - 1)

NextRefine == \E obj_id \in Objs, lease \in RefineLeases : Update(obj_id, lease)

SpecRefine == Init /\ [][NextRefine]_vars

\* the harness: set_capacity once on the new cache, then cache_access only
NextHarness ==
    \/ \E cache_size \in Capacities :
          lease_cache.cache_size = None /\ SetCapacity(cache_size)
    \/ \E obj_id \in Objs, lease \in Leases :
          lease_cache.cache_size # None /\ CacheAccess(lease, obj_id)

SpecHarness == Init /\ [][NextHarness]_vars

\* ------------------------------------------------------------------ observers
\* the call the step just made (read in the next state)
IsAccess(call) == call.op \in {"update", "cache_access"}
IsTick(call) == call.op \in {"update", "cache_access", "dump_expiring"}
Returned(call) == call.result # "Panic"

\* the buckets that hold obj_id
BucketsOf(c, obj_id) == {i \in Indices : obj_id \in c.expiring_vec[i]}

RECURSIVE SumSizes(_, _)
SumSizes(ev, idxs) ==
    IF idxs = {} THEN 0
    ELSE LET i == CHOOSE j \in idxs : TRUE
         IN Cardinality(ev[i]) + SumSizes(ev, idxs \ {i})

\* ------------------------------------------------------------------ C1
\* C1: after set_capacity(k), every cache_access call that returns leaves
\* get_cache_consumption() <= k, whatever the count was when the call began.
C1_CapacityBound ==
    (last.op = "cache_access" /\ Returned(last) /\ lease_cache.cache_size # None)
        => ~UsizeGt(get_cache_consumption(lease_cache), unwrap(lease_cache.cache_size))

\* ------------------------------------------------------------------ C2
\* C2: update(o, 0) on an object that is resident and does not expire at the
\* new tick returns Hit and leaves o non-resident: contains(o) false,
\* time till eviction none, o in no bucket, resident count one less.
C2_LeaseZeroHitEvicts ==
    [][ \A o \in Objs :
          ( /\ last'.op = "update" /\ last'.obj = o /\ last'.lease = 0
            /\ contains(lease_cache, o)
            /\ BucketsOf(lease_cache, o) = {lease_cache.content_map[o]}
            /\ lease_cache.content_map[o]
                 # (lease_cache.curr_expiring_index + 1) % MAX_EXPIRING_VEC_SIZE )
          => ( /\ last'.result = "Hit"
               /\ ~contains(lease_cache', o)
               /\ get_time_till_eviction(lease_cache', o) = None
               /\ BucketsOf(lease_cache', o) = {}
               /\ get_cache_consumption(lease_cache')
                    = get_cache_consumption(lease_cache) - 1 ) ]_vars

\* ------------------------------------------------------------------ C3
\* C3: in every state reached by update/cache_access, remove_from_cache and
\* force_evict calls, an object is a key of content_map iff it is in exactly
\* one bucket, that bucket is the one content_map records, and the number of
\* keys equals the summed bucket sizes.
C3_DualIndex ==
    ~panicked =>
        /\ \A o \in Objs :
              /\ contains(lease_cache, o) <=> Cardinality(BucketsOf(lease_cache, o)) = 1
              /\ contains(lease_cache, o)
                    => BucketsOf(lease_cache, o) = {lease_cache.content_map[o]}
        /\ Cardinality(DOMAIN lease_cache.content_map)
              = SumSizes(lease_cache.expiring_vec, Indices)

\* ------------------------------------------------------------------ C4
\* the cache with the clock advanced one tick and the bucket of the new tick
\* emptied, its objects leaving content_map and the count: nothing else differs
AfterTick(c) ==
    LET idx == (c.curr_expiring_index + 1) % MAX_EXPIRING_VEC_SIZE
        gone == c.expiring_vec[idx]
    IN [c EXCEPT !.curr_expiring_index = idx,
                 !.expiring_vec = [i \in Indices |-> IF i = idx THEN {} ELSE @[i]],
                 !.content_map = [x \in (DOMAIN @) \ gone |-> @[x]],
                 !.cache_consumption = @ - Cardinality(gone)]

\* C4: update(o, 0) on an object that is not resident once the new tick is
\* swept returns Miss, leaves o non-resident, and changes nothing but the
\* clock and the swept bucket.
C4_LeaseZeroMissIsProbe ==
    [][ \A o \in Objs :
          ( /\ last'.op = "update" /\ last'.obj = o /\ last'.lease = 0
            /\ ~contains(AfterTick(lease_cache), o) )
          => ( /\ last'.result = "Miss"
               /\ ~panicked'
               /\ ~contains(lease_cache', o)
               /\ get_time_till_eviction(lease_cache', o) = None
               /\ BucketsOf(lease_cache', o) = BucketsOf(AfterTick(lease_cache), o)
               /\ lease_cache' = AfterTick(lease_cache) ) ]_vars

\* a lease-zero update missed while another object was resident
C4_Witness ==
    /\ last.op = "update" /\ last.lease = 0 /\ last.result = "Miss"
    /\ ~contains(lease_cache, last.obj)
    /\ \E p \in Objs : p # last.obj /\ contains(lease_cache, p)

\* ------------------------------------------------------------------ C5
\* the objects the step itself renewed, removed or evicted
Touched(call) ==
    (IF call.obj \in Objs THEN {call.obj} ELSE {}) \cup call.evicted

IsEmpty(c) ==
    /\ DOMAIN c.content_map = {}
    /\ \A i \in Indices : c.expiring_vec[i] = {}

\* the step is an access (lease, obj_id) that returned without a capacity eviction
AccessStep(call, lease, obj_id) ==
    /\ IsAccess(call) /\ call.obj = obj_id /\ call.lease = lease
    /\ Returned(call) /\ call.evicted = None

\* the state an access (2, a) on an empty cache leaves
AfterFirstAccess(a) ==
    /\ AccessStep(last, 2, a)
    /\ last.result = "Miss"
    /\ DOMAIN lease_cache.content_map = {a}
    /\ \A i \in Indices : lease_cache.expiring_vec[i] \subseteq {a}

\* One step of the scenario, with the values first and second for the two
\* readings of get_time_till_eviction(a)
Scenario(first, second) ==
        \A a, b \in Objs : (a # b) =>
          /\ (IsEmpty(lease_cache) /\ AccessStep(last', 2, a))
                => /\ last'.result = "Miss"
                   /\ get_time_till_eviction(lease_cache', a) = Some(first)
          /\ (AfterFirstAccess(a) /\ AccessStep(last', 0, b))
                => /\ last'.result = "Miss"
                   /\ ~contains(lease_cache', b)
                   /\ get_time_till_eviction(lease_cache', a) = Some(second)

\* C6 as stated: on an empty cache an access (2, A) returns Miss and leaves
\* time till eviction of A at 1; the next access (0, B) returns Miss, leaves B
\* non-resident and time till eviction of A at 0.
C6_AsStated == [][Scenario(1, 0)]_vars

\* C6 amended: on an empty cache an access (2, A) returns Miss and leaves time
\* till eviction of A at 2 (the lease counts from the tick of the access); the
\* next access (0, B) returns Miss, leaves B non-resident and time till
\* eviction of A at 1.
C6_Scenario == [][Scenario(2, 1)]_vars

\* both accesses of the scenario have been made
C6_Witness ==
    /\ AccessStep(last, 0, "B") /\ last.result = "Miss"
    /\ track["A"] = [lease |-> 2, age |-> 1]
    /\ DOMAIN lease_cache.content_map = {"A"}
    /\ get_time_till_eviction(lease_cache, "A") = Some(1)

\* ------------------------------------------------------------------ C7
\* C7: an object granted lease L > 0 has time till eviction L right after the
\* grant and L - j after each of the next j < L ticks, at every clock value.
C7_TimeTillEvictionTracksLease ==
    ~panicked =>
        \A o \in Objs :
            (track[o].lease > 0) =>
                get_time_till_eviction(lease_cache, o)
                    = Some(track[o].lease - track[o].age)

\* ------------------------------------------------------------------ C8
\* C8: update(o, lease) returns Hit iff o was resident before the call and its
\* bucket is not the one of the new tick, and Miss otherwise; an access to o at
\* the tick its lease ends returns Miss; a Miss with lease > 0 leaves o
\* resident in the bucket of new tick + lease.
C8_HitMissOrder ==
    [][ \A o \in Objs :
          (last'.op = "update" /\ last'.obj = o) =>
             LET idx == (lease_cache.curr_expiring_index + 1) % MAX_EXPIRING_VEC_SIZE
                 resident == /\ contains(lease_cache, o)
                             /\ lease_cache.content_map[o] # idx
             IN /\ (last'.result = "Hit") <=> resident
                /\ (last'.result = "Miss") <=> ~resident
                /\ (o \in RefDue(track)) => last'.result = "Miss"
                /\ (last'.result = "Miss" /\ last'.lease > 0) =>
                      /\ contains(lease_cache', o)
                      /\ lease_cache'.content_map[o]
                            = (idx + last'.lease) % MAX_EXPIRING_VEC_SIZE
                      /\ BucketsOf(lease_cache', o) = {lease_cache'.content_map[o]} ]_vars

\* ------------------------------------------------------------------ C9
\* C9: force_evict on a cache with no resident object reports an error to the
\* caller: it does not panic, returns no object and leaves the cache unchanged.
C9_EmptyEvictionIsReported ==
    [][ (last'.op = "force_evict" /\ DOMAIN lease_cache.content_map = {}) =>
           /\ ~panicked'
           /\ last'.evicted = None
           /\ lease_cache' = lease_cache ]_vars

\* ------------------------------------------------------------------ C10
\* C10: with no capacity set, every cache_access call completes: it returns
\* the Hit or Miss of the lookup and evicts nothing for capacity.
C10_CapacityIsOptional ==
    [][ (last'.op = "cache_access" /\ lease_cache.cache_size = None) =>
           /\ ~panicked'
           /\ last'.result \in {"Hit", "Miss"}
           /\ last'.result = update(lease_cache, last'.obj, last'.lease).result
           /\ last'.evicted = None ]_vars

\* ------------------------------------------------------------------ C11
\* C11: force_evict on a cache with a resident object returns an object that
\* was resident; every resident object is a possible choice; afterwards that
\* object is gone from content_map and from its bucket, the resident count is
\* one less, and every other object is where it was.
C11_ForceEvictRemovesOne ==
    [][ (last'.op = "force_evict" /\ DOMAIN lease_cache.content_map # {}) =>
           /\ \A o \in DOMAIN lease_cache.content_map :
                 \E r \in force_evict(lease_cache) : r.evicted = Some(o)
           /\ ~panicked'
           /\ last'.evicted # None
           /\ \A e \in last'.evicted :
                 /\ contains(lease_cache, e)
                 /\ ~contains(lease_cache', e)
                 /\ BucketsOf(lease_cache', e) = {}
                 /\ lease_cache'.content_map = MapRemove(lease_cache.content_map, e)
                 /\ \A p \in Objs \ {e} :
                       BucketsOf(lease_cache', p) = BucketsOf(lease_cache, p)
           /\ get_cache_consumption(lease_cache')
                 = get_cache_consumption(lease_cache) - 1 ]_vars

\* ------------------------------------------------------------------ C12
\* C12: each insert of an object that is not resident, with a lease > 0,
\* raises get_cache_consumption() by one, so N such inserts with no expiry
\* in between leave it at N.
C12_InsertCounts ==
    [][ \A o \in Objs :
          ( /\ last'.op = "insert" /\ last'.obj = o /\ last'.lease > 0
            /\ ~contains(lease_cache, o) )
          => get_cache_consumption(lease_cache')
                = get_cache_consumption(lease_cache) + 1 ]_vars

\* ------------------------------------------------------------------ C13
\* C13: remove_from_cache(o) on a resident o takes it out of its bucket and of
\* content_map and lowers the resident count by one, other objects unchanged;
\* on an o that is not resident it does not fail and changes nothing.
C13_RemoveOrNoOp ==
    [][ \A o \in Objs :
          (last'.op = "remove_from_cache" /\ last'.obj = o) =>
             /\ ~panicked'
             /\ contains(lease_cache, o) =>
                   /\ lease_cache'.content_map = MapRemove(lease_cache.content_map, o)
                   /\ BucketsOf(lease_cache', o)
                         = BucketsOf(lease_cache, o) \ {lease_cache.content_map[o]}
                   /\ \A p \in Objs \ {o} :
                         BucketsOf(lease_cache', p) = BucketsOf(lease_cache, p)
                   /\ get_cache_consumption(lease_cache')
                         = get_cache_consumption(lease_cache) - 1
             /\ ~contains(lease_cache, o) => lease_cache' = lease_cache ]_vars

\* ------------------------------------------------------------------ C14
\* C14: an object granted lease L > 0, at or above the ring horizon too, is in
\* no swept set before L ticks have passed since the grant.
C14_NoEarlyExpiry ==
    [][ (IsTick(last') /\ Returned(last')) =>
           \A o \in last'.expiring :
              (track[o].lease > 0) => (track[o].age + 1 >= track[o].lease) ]_vars

\* ------------------------------------------------------------------ C15
\* C15: get_time_till_eviction(o) of an object with a content_map entry is at
\* most the lease last granted to it, and is 0 once the clock has reached the
\* bucket content_map records for it without the sweep having removed it.
C15_TimeTillEvictionNeverWraps ==
    [][ ~panicked' =>
          \A o \in DOMAIN lease_cache'.content_map :
             /\ (track'[o].lease > 0) =>
                   unwrap(get_time_till_eviction(lease_cache', o)) <= track'[o].lease
             /\ ( /\ IsTick(last') /\ o \notin Touched(last')
                  /\ contains(lease_cache, o)
                  /\ lease_cache.content_map[o] = lease_cache'.curr_expiring_index )
                => get_time_till_eviction(lease_cache', o) = Some(0) ]_vars

\* ------------------------------------------------------------------ C16
\* C16: a set_capacity call made when a capacity is already set, or after an
\* access has been processed, is rejected and leaves the capacity as it was.
C16_SetCapacityOnce ==
    [][ ( /\ last'.op = "set_capacity"
          /\ \/ lease_cache.cache_size # None
             \/ IsAccess(last) )
        => ( /\ last'.result # "Ok"
             /\ lease_cache'.cache_size = lease_cache.cache_size ) ]_vars

\* ------------------------------------------------------------------ C17
\* C17: with a capacity set, every cache_access call returns Hit or Miss: none
\* reaches the unwrap that fails when the recorded bucket of an object does
\* not hold it.
C17_NoPanicOnAccessPath ==
    (last.op = "cache_access") => (~panicked /\ last.result \in {"Hit", "Miss"})

\* ------------------------------------------------------------------ C19
\* C19: on the access path (a capacity set, then cache_access only) the
\* resident counter equals the number of keys of content_map after every call
\* that returns, and the buckets never hold more objects than the counter
\* counts, so the subtraction in dump_expiring never goes below zero.
C19_CounterMatchesContentMap ==
    (~panicked /\ lease_cache.cache_size # None) =>
        /\ lease_cache.cache_consumption
             = Cardinality(DOMAIN lease_cache.content_map)
        /\ lease_cache.cache_consumption >= 0
        /\ SumSizes(lease_cache.expiring_vec, Indices)
             <= lease_cache.cache_consumption

\* a capacity eviction has just happened and the counter is not zero
C19_Witness ==
    /\ ~panicked
    /\ last.op = "cache_access"
    /\ last.evicted # None
    /\ lease_cache.cache_consumption = 1

\* ------------------------------------------------------------------ C18
\* C18: an update(o, L) with L > 0 that hits leaves o in exactly one bucket,
\* the one of (new current index + L), with one content_map entry pointing at
\* it and get_time_till_eviction(o) = L; the counter changes only by the number
\* of objects the call's own tick swept.
C18_RenewalOnHit ==
    [][(last'.op = "update" /\ last'.result = "Hit" /\ last'.lease > 0) =>
         LET o == last'.obj
             L == last'.lease
             c == lease_cache'
             bucket == (c.curr_expiring_index + L) % MAX_EXPIRING_VEC_SIZE
         IN /\ BucketsOf(c, o) = {bucket}
            /\ o \in DOMAIN c.content_map
            /\ c.content_map[o] = bucket
            /\ get_time_till_eviction(c, o) = Some(L)
            /\ c.cache_consumption
                 = lease_cache.cache_consumption
                     - Cardinality(last'.expiring)]_vars

\* ------------------------------------------------------------------ C20
\* what the reference answers for the time until eviction of an object
RefTimeTillEviction(t, o) ==
    IF t[o].lease > 0 THEN Some(t[o].lease - t[o].age) ELSE None

\* C20: with every lease inside the ring, each update returns Hit exactly when
\* the reference still holds the object after its tick, sweeps exactly the
\* objects the reference has due, and leaves the same resident set and the
\* same time until eviction for every object as the reference.
C20_RingRefinesTickMap ==
    [][(last'.op = "update") =>
         /\ last'.result
              = (IF RefTick(track)[last'.obj].lease > 0 THEN "Hit" ELSE "Miss")
         /\ last'.expiring = RefDue(track)
         /\ DOMAIN lease_cache'.content_map
              = {o \in Objs : track'[o].lease > 0}
         /\ \A o \in Objs :
              get_time_till_eviction(lease_cache', o)
                = RefTimeTillEviction(track', o)]_vars

\* the clock has gone round the ring and a resident object's bucket lies
\* behind the current index
C20_Witness ==
    /\ last.op = "update"
    /\ track["A"].age + track["B"].age > 0
    /\ \E o \in DOMAIN lease_cache.content_map :
         /\ lease_cache.content_map[o] < lease_cache.curr_expiring_index
         /\ track[o].age > 0

====
